---- MODULE Spec2Model ----
(***************************************************************************)
(* Model of src/src/Either.ts (f-box): the Either type, its two           *)
(* constructors `left` and `right`, the methods each constructor puts on  *)
(* the object it returns, and the predicates isNone / isEither / isLeft / *)
(* isRight.                                                                *)
(*                                                                         *)
(* Every object a constructor returns is a fresh JavaScript object, so the *)
(* model keeps a heap: heap[i] is the i-th object constructed, described   *)
(* by the constructor that built it (tag) and the value it closed over.    *)
(* A reference to it is the JavaScript value Ref(i).  Functions handed to  *)
(* the combinators are JavaScript values too; every invocation of one is   *)
(* appended to a call log together with the parameter it was called        *)
(* through and the argument it received.                                   *)
(***************************************************************************)
EXTENDS Integers, Sequences, FiniteSets, TLC

VARIABLES heap, log, last, chain

vars == <<heap, log, last, chain>>

(***************************************************************************)
(* Bounds.                                                                 *)
(***************************************************************************)
\* numbers used as payloads are 0 .. NumMod-1
NumMod == 2
\* most steps of one chain
MaxChain == 3

(***************************************************************************)
(* JavaScript values.  k is the kind, n the number (the number itself, a   *)
(* string's length, a boolean as 0/1, a heap index for a reference to an   *)
(* Either, the shape of a plain object), f the function's description.     *)
(***************************************************************************)
JSVal(kind, num, fns) == [k |-> kind, n |-> num, f |-> fns]

Num(i) == JSVal("num", i, <<>>)

Str(len) == JSVal("str", len, <<>>)

Bool(b) == JSVal("bool", IF b THEN 1 ELSE 0, <<>>)

Null == JSVal("null", 0, <<>>)

Undefined == JSVal("undefined", 0, <<>>)

\* a reference to the Either object heap[i]
Ref(i) == JSVal("ref", i, <<>>)

\* a plain object that is not an Either: {} (shape 0), { isEither: 1 } (shape 1)
Obj(shape) == JSVal("obj", shape, <<>>)

\* a named function value
Fn(name) == JSVal("fn", 0, <<name>>)

\* the function x => g(f(x))
Compose(g, f) == JSVal("comp", 0, <<f, g>>)

\* the function x => f(x).flatMap(g)
KCompose(f, g) == JSVal("kcomp", 0, <<f, g>>)

\* JavaScript's ToBoolean, as used by the operator && and the operator ?:
Truthy(v) ==
  CASE v.k = "null" -> FALSE
    [] v.k = "undefined" -> FALSE
    [] v.k = "num" -> v.n # 0
    [] v.k = "str" -> v.n # 0
    [] v.k = "bool" -> v.n = 1
    [] OTHER -> TRUE

\* JavaScript's typeof
TypeOf(v) ==
  CASE v.k = "undefined" -> "undefined"
    [] v.k = "num" -> "number"
    [] v.k = "str" -> "string"
    [] v.k = "bool" -> "boolean"
    [] v.k \in {"fn", "comp", "kcomp"} -> "function"
    [] OTHER -> "object"

\* value.isEither === true, for a value whose typeof is "object"
HasEitherTag(v) == v.k = "ref"

(***************************************************************************)
(* The evaluation state threaded through a call: the heap, the call log    *)
(* and the value returned.                                                 *)
(***************************************************************************)
Ret(s, v) == [heap |-> s.heap, log |-> s.log, ret |-> v]

\* a constructor's object literal: a fresh object closing over `value`
Alloc(s, tag, value) ==
  [heap |-> Append(s.heap, [tag |-> tag, value |-> value]),
   log |-> s.log,
   ret |-> Ref(Len(s.heap) + 1)]

\* isNone as written with a single comparison: value === null
isNone_nullOnly(value) == value.k = "null"

\* const isNone
isNone(value) == value.k = "null" \/ value.k = "undefined"

\* const isEither: value && typeof value === "object" && value.isEither === true
isEither(value) ==
  IF ~Truthy(value) THEN value
  ELSE IF TypeOf(value) # "object" THEN Bool(FALSE)
  ELSE Bool(HasEitherTag(value))

\* const left
left(s, value) == Alloc(s, "Left", value)

\* const right (and its alias `either`, exported as pack)
right(s, value) == Alloc(s, "Right", value)

RECURSIVE CallFn(_, _, _, _)

\* left: map: () => left(value)
left_map(s, value, fn) == left(s, value)

\* left: "<$>": () => left(value)
left_fmap(s, value, fn) == left(s, value)

\* left.flatMap written like right.flatMap: (fn) => fn(value)
left_flatMap_calls(s, value, fn) == CallFn(s, fn, value, "fn")

\* left: flatMap: () => left(value)
left_flatMap(s, value, fn) == left(s, value)

\* left[">>="] written like right.flatMap: (fn) => fn(value)
left_bind_calls(s, value, fn) == CallFn(s, fn, value, "fn")

\* left: ">>=": () => left(value)
left_bind(s, value, fn) == left(s, value)

\* left: apply: () => left(value)
left_apply(s, value, boxValue) == left(s, value)

\* left: "<*>": () => left(value)
left_ap(s, value, boxValue) == left(s, value)

\* left: getValue: () => value
left_getValue(s, value) == Ret(s, value)

\* left: orElse: (defaultValue) => defaultValue
left_orElse(s, value, defaultValue) == Ret(s, defaultValue)

\* left: getOrElse: (defaultValue) => defaultValue
left_getOrElse(s, value, defaultValue) == Ret(s, defaultValue)

\* left.match calling the other handler: (_onLeft, onRight) => onRight(value)
left_match_other(s, value, onLeft, onRight) == CallFn(s, onRight, value, "onRight")

\* left: match: (onLeft, _onRight) => onLeft(value)
left_match(s, value, onLeft, onRight) == CallFn(s, onLeft, value, "onLeft")

\* right.map guarding the payload: isNone(value) ? left(value) : right(fn(value))
right_map_guarded(s, value, fn) ==
  IF isNone(value) THEN left(s, value)
  ELSE LET c == CallFn(s, fn, value, "fn") IN right(c, c.ret)

\* right: const map = (fn) => right(fn(value))
right_map(s, value, fn) ==
  LET c == CallFn(s, fn, value, "fn") IN right(c, c.ret)

\* right.flatMap wrapping the result again: (fn) => right(fn(value))
right_flatMap_wrapped(s, value, fn) ==
  LET c == CallFn(s, fn, value, "fn") IN right(c, c.ret)

\* right: const flatMap = (fn) => fn(value)
right_flatMap(s, value, fn) == CallFn(s, fn, value, "fn")

\* right: const getValue = () => value
right_getValue(s, value) == Ret(s, value)

\* right: const orElse = (_defaultValue) => right(value)
right_orElse(s, value, defaultValue) == right(s, value)

\* right: const getOrElse = (_defaultValue) => value
right_getOrElse(s, value, defaultValue) == Ret(s, value)

\* right: const match = (_onLeft, onRight) => onRight(value)
right_match(s, value, onLeft, onRight) == CallFn(s, onRight, value, "onRight")

\* obj.match(onLeft, onRight)
match(s, r, onLeft, onRight) ==
  IF s.heap[r].tag = "Left"
  THEN left_match(s, s.heap[r].value, onLeft, onRight)
  ELSE right_match(s, s.heap[r].value, onLeft, onRight)

\* obj.getValue()
getValue(s, r) ==
  IF s.heap[r].tag = "Left"
  THEN left_getValue(s, s.heap[r].value)
  ELSE right_getValue(s, s.heap[r].value)

\* map updating the receiver in place and returning it
map_inplace(s, r, fn, name) ==
  IF s.heap[r].tag = "Left" THEN Ret(s, Ref(r))
  ELSE LET c == CallFn(s, fn, s.heap[r].value, "fn")
       IN [heap |-> [c.heap EXCEPT ![r] = [tag |-> "Right", value |-> c.ret]],
           log |-> c.log,
           ret |-> Ref(r)]

\* obj.map(fn) and obj["<$>"](fn): the property the constructor put there
map(s, r, fn, name) ==
  IF s.heap[r].tag = "Left"
  THEN IF name = "map" THEN left_map(s, s.heap[r].value, fn)
       ELSE left_fmap(s, s.heap[r].value, fn)
  ELSE right_map(s, s.heap[r].value, fn)

\* obj.flatMap(fn) and obj[">>="](fn)
flatMap(s, r, fn, name) ==
  IF s.heap[r].tag = "Left"
  THEN IF name = "flatMap" THEN left_flatMap(s, s.heap[r].value, fn)
       ELSE left_bind(s, s.heap[r].value, fn)
  ELSE right_flatMap(s, s.heap[r].value, fn)

\* const isLeft: isEither(value) && value.match((l) => !isNone(l), () => false)
isLeft(s, value) ==
  IF ~Truthy(isEither(value)) THEN Ret(s, isEither(value))
  ELSE match(s, value.n, Fn("notNone"), Fn("constFalse"))

\* const isRight: isEither(value) && value.match(() => false, (r) => !isNone(r))
isRight(s, value) ==
  IF ~Truthy(isEither(value)) THEN Ret(s, isEither(value))
  ELSE match(s, value.n, Fn("constFalse"), Fn("notNone"))

\* right.apply unwrapping the box itself when isLeft is false:
\*   isLeft(boxValue) ? boxValue : right(fn(boxValue.getValue()))
right_apply_unwrap(s, this, boxValue) ==
  LET fn == getValue(s, this)
      t == isLeft(fn, boxValue)
  IN IF Truthy(t.ret) THEN Ret(t, boxValue)
     ELSE right_map(t, t.heap[boxValue.n].value, fn.ret)

\* right: const apply = function (boxValue) {
\*   const fn = this.getValue();
\*   return isLeft(boxValue) ? boxValue : boxValue.map(fn); }
right_apply(s, this, boxValue) ==
  LET fn == getValue(s, this)
      t == isLeft(fn, boxValue)
  IN IF Truthy(t.ret) THEN Ret(t, boxValue)
     ELSE map(t, boxValue.n, fn.ret, "map")

\* obj.apply(boxValue) and obj["<*>"](boxValue)
apply(s, r, boxValue, name) ==
  IF s.heap[r].tag = "Left"
  THEN IF name = "apply" THEN left_apply(s, s.heap[r].value, boxValue)
       ELSE left_ap(s, s.heap[r].value, boxValue)
  ELSE right_apply(s, r, boxValue)

\* obj.orElse(defaultValue)
orElse(s, r, defaultValue) ==
  IF s.heap[r].tag = "Left"
  THEN left_orElse(s, s.heap[r].value, defaultValue)
  ELSE right_orElse(s, s.heap[r].value, defaultValue)

\* obj.getOrElse(defaultValue)
getOrElse(s, r, defaultValue) ==
  IF s.heap[r].tag = "Left"
  THEN left_getOrElse(s, s.heap[r].value, defaultValue)
  ELSE right_getOrElse(s, s.heap[r].value, defaultValue)

(***************************************************************************)
(* The functions the client hands to the combinators.                      *)
(*   id         x => x                                                     *)
(*   inc        x => typeof x === "number" ? (x + 1) % NumMod : x          *)
(*   nil        () => null                                                 *)
(*   notNone    (v) => !isNone(v)        (the lambda of isLeft / isRight)  *)
(*   constFalse () => false              (the lambda of isLeft / isRight)  *)
(*   right      Either.right                                               *)
(*   left       Either.left                                                *)
(*   incR       x => right(inc(x))                                         *)
(*   nonZero    x => x === 0 ? left(null) : right(x)                       *)
(***************************************************************************)
Inc(v) == IF v.k = "num" THEN Num((v.n + 1) % NumMod) ELSE v

\* the body of the named function, run on argument v
Body(s, name, v) ==
  CASE name = "id" -> Ret(s, v)
    [] name = "inc" -> Ret(s, Inc(v))
    [] name = "nil" -> Ret(s, Null)
    [] name = "notNone" -> Ret(s, Bool(~isNone(v)))
    [] name = "constFalse" -> Ret(s, Bool(FALSE))
    [] name = "right" -> right(s, v)
    [] name = "left" -> left(s, v)
    [] name = "incR" -> right(s, Inc(v))
    [] name = "nonZero" -> IF v = Num(0) THEN left(s, Null) ELSE right(s, v)

\* the call fn(v), made through the parameter `slot` of the calling method
CallFn(s, fn, v, slot) ==
  LET logged == [heap |-> s.heap,
                 log |-> Append(s.log, [fn |-> fn, slot |-> slot, arg |-> v])]
  IN CASE fn.k = "fn" -> Body(logged, fn.f[1], v)
       [] fn.k = "comp" ->
            LET a == Body(logged, fn.f[1], v) IN Body(a, fn.f[2], a.ret)
       [] fn.k = "kcomp" ->
            LET a == Body(logged, fn.f[1], v)
            IN flatMap(a, a.ret.n, Fn(fn.f[2]), "flatMap")

(***************************************************************************)
(* The client of the single operations.  It holds two Either objects, in   *)
(* heap[1] and heap[2], and evaluates one expression at a time on them:    *)
(* a method call with one of them as receiver and, where the method takes  *)
(* an Either, one of them as argument; a predicate; or the two sides of    *)
(* one of the functor and monad equations.  The objects an expression      *)
(* constructs follow in heap[3..]; they are dropped when the next          *)
(* expression starts.  `log` holds the calls made to client functions      *)
(* during the latest expression and `last` describes that expression.      *)
(***************************************************************************)
\* payloads the client wraps
Payloads == {Num(i) : i \in 0 .. NumMod - 1} \cup {Null, Undefined, Fn("inc")}

\* functions for map and match
PlainFns == {Fn("id"), Fn("inc"), Fn("nil")}

\* Either-returning functions for flatMap
EitherFns == {Fn("right"), Fn("left"), Fn("incR"), Fn("nonZero")}

\* values handed to the predicates that are not references to an Either
OtherVals == Payloads \cup {Str(0), Str(1), Bool(FALSE), Bool(TRUE), Obj(0), Obj(1)}

\* the two objects the client holds
Held == {1, 2}

HeldRefs == {Ref(i) : i \in Held}

\* the evaluation state at the start of an expression
Now == [heap |-> SubSeq(heap, 1, 2), log |-> <<>>]

\* nothing constructed, nothing called
Empty == [heap |-> <<>>, log |-> <<>>]

\* the description of an expression: method or function called, property
\* name used, receiver, argument, function(s) passed, value returned (ret2:
\* the value of the other side of an equation)
Op(op, name, recv, arg, fn, fn2, ret, ret2) ==
  [op |-> op, name |-> name, recv |-> recv, arg |-> arg, fn |-> fn,
   fn2 |-> fn2, ret |-> ret, ret2 |-> ret2]

NoOp == Op("none", "", 0, Undefined, Undefined, Undefined, Undefined, Undefined)

\* the expression's effect
Commit(res, op, name, recv, arg, fn, fn2) ==
  /\ heap' = res.heap
  /\ log' = res.log
  /\ last' = Op(op, name, recv, arg, fn, fn2, res.ret, Undefined)

\* the object constructor `tag` builds around v
Build(tag, v) == IF tag = "Left" THEN left(Empty, v) ELSE right(Empty, v)

Init ==
  /\ \E t1 \in {"Left", "Right"}, t2 \in {"Left", "Right"}, v1 \in Payloads, v2 \in Payloads :
       heap = Build(t1, v1).heap \o Build(t2, v2).heap
  /\ log = <<>>
  /\ last = NoOp
  /\ chain = <<>>

\* x_i = Either.left(v)
DoLeft ==
  \E i \in Held, v \in Payloads :
    /\ heap' = [SubSeq(heap, 1, 2) EXCEPT ![i] = left(Empty, v).heap[1]]
    /\ log' = <<>>
    /\ last' = Op("left", "left", 0, v, Undefined, Undefined, Ref(i), Undefined)
    /\ UNCHANGED chain

\* x_i = Either.right(v), x_i = Either.pack(v)
DoRight ==
  \E i \in Held, v \in Payloads, name \in {"right", "pack"} :
    /\ heap' = [SubSeq(heap, 1, 2) EXCEPT ![i] = right(Empty, v).heap[1]]
    /\ log' = <<>>
    /\ last' = Op("right", name, 0, v, Undefined, Undefined, Ref(i), Undefined)
    /\ UNCHANGED chain

\* x_r.map(fn), x_r["<$>"](fn)
DoMap ==
  \E r \in Held, fn \in PlainFns, name \in {"map", "<$>"} :
    /\ Commit(map(Now, r, fn, name), "map", name, r, Undefined, fn, Undefined)
    /\ UNCHANGED chain

\* x_r.flatMap(fn), x_r[">>="](fn)
DoFlatMap ==
  \E r \in Held, fn \in EitherFns, name \in {"flatMap", ">>="} :
    /\ Commit(flatMap(Now, r, fn, name), "flatMap", name, r, Undefined, fn, Undefined)
    /\ UNCHANGED chain

\* a receiver the type of apply admits: a Left, or a Right holding a function
CanApply(h, r) == h[r].tag = "Left" \/ TypeOf(h[r].value) = "function"

\* x_r.apply(x_b), x_r["<*>"](x_b)
DoApply ==
  \E r \in Held, b \in HeldRefs, name \in {"apply", "<*>"} :
    /\ CanApply(heap, r)
    /\ Commit(apply(Now, r, b, name), "apply", name, r, b, Undefined, Undefined)
    /\ UNCHANGED chain

\* x_r.getValue()
DoGetValue ==
  \E r \in Held :
    /\ Commit(getValue(Now, r), "getValue", "getValue", r, Undefined, Undefined, Undefined)
    /\ UNCHANGED chain

\* x_r.orElse(x_d)
DoOrElse ==
  \E r \in Held, d \in HeldRefs :
    /\ Commit(orElse(Now, r, d), "orElse", "orElse", r, d, Undefined, Undefined)
    /\ UNCHANGED chain

\* x_r.getOrElse(x)
DoGetOrElse ==
  \E r \in Held, x \in Payloads :
    /\ Commit(getOrElse(Now, r, x), "getOrElse", "getOrElse", r, x, Undefined, Undefined)
    /\ UNCHANGED chain

\* x_r.match(onLeft, onRight)
DoMatch ==
  \E r \in Held, onLeft \in PlainFns, onRight \in PlainFns :
    /\ Commit(match(Now, r, onLeft, onRight), "match", "match", r, Undefined, onLeft, onRight)
    /\ UNCHANGED chain

\* Either.isNone(x)
DoIsNone ==
  \E x \in OtherVals \cup HeldRefs :
    /\ Commit(Ret(Now, Bool(isNone(x))), "isNone", "isNone", 0, x, Undefined, Undefined)
    /\ UNCHANGED chain

\* Either.isEither(x)
DoIsEither ==
  \E x \in OtherVals \cup HeldRefs :
    /\ Commit(Ret(Now, isEither(x)), "isEither", "isEither", 0, x, Undefined, Undefined)
    /\ UNCHANGED chain

\* Either.isLeft(x)
DoIsLeft ==
  \E x \in OtherVals \cup HeldRefs :
    /\ Commit(isLeft(Now, x), "isLeft", "isLeft", 0, x, Undefined, Undefined)
    /\ UNCHANGED chain

\* Either.isRight(x)
DoIsRight ==
  \E x \in OtherVals \cup HeldRefs :
    /\ Commit(isRight(Now, x), "isRight", "isRight", 0, x, Undefined, Undefined)
    /\ UNCHANGED chain

\* both sides of an equation: heap and log after both, the two values
Both(lhs, rhs) == [heap |-> rhs.heap, log |-> rhs.log, ret |-> lhs.ret, ret2 |-> rhs.ret]

CommitBoth(res, op, recv, arg, fn, fn2) ==
  /\ heap' = res.heap
  /\ log' = res.log
  /\ last' = Op(op, op, recv, arg, fn, fn2, res.ret, res.ret2)

\* x_r.map(f).map(g)  and  x_r.map(x => g(f(x)))
LawMapCompose ==
  \E r \in Held, f \in PlainFns, g \in PlainFns :
    LET a == map(Now, r, f, "map")
        lhs == map(a, a.ret.n, g, "map")
        rhs == map(lhs, r, Compose(g.f[1], f.f[1]), "map")
    IN /\ CommitBoth(Both(lhs, rhs), "mapCompose", r, Undefined, f, g)
       /\ UNCHANGED chain

\* right(x).flatMap(f)  and  f(x)
LawLeftIdentity ==
  \E x \in Payloads, f \in EitherFns :
    LET m == right(Now, x)
        lhs == flatMap(m, m.ret.n, f, "flatMap")
        rhs == CallFn(lhs, f, x, "direct")
    IN /\ CommitBoth(Both(lhs, rhs), "leftIdentity", 0, x, f, Undefined)
       /\ UNCHANGED chain

\* x_r.flatMap(f).flatMap(g)  and  x_r.flatMap(x => f(x).flatMap(g))
LawAssoc ==
  \E r \in Held, f \in EitherFns, g \in EitherFns :
    LET a == flatMap(Now, r, f, "flatMap")
        lhs == flatMap(a, a.ret.n, g, "flatMap")
        rhs == flatMap(lhs, r, KCompose(f.f[1], g.f[1]), "flatMap")
    IN /\ CommitBoth(Both(lhs, rhs), "assoc", r, Undefined, f, g)
       /\ UNCHANGED chain

Next ==
  \/ DoLeft
  \/ DoRight
  \/ DoMap
  \/ DoFlatMap
  \/ DoApply
  \/ DoGetValue
  \/ DoOrElse
  \/ DoGetOrElse
  \/ DoMatch
  \/ DoIsNone
  \/ DoIsEither
  \/ DoIsLeft
  \/ DoIsRight
  \/ LawMapCompose
  \/ LawLeftIdentity
  \/ LawAssoc

Spec == Init /\ [][Next]_vars

(***************************************************************************)
(* The client of a chain.  It constructs one Either and then calls map,    *)
(* flatMap or apply (under either property name) on the result of the      *)
(* previous step, at most MaxChain times.  Nothing is dropped: chain[i]    *)
(* names the object step i-1 returned and counts the calls step i-1 made   *)
(* to the function it was given.  The box of an apply step is constructed  *)
(* in the argument position of the call.                                   *)
(***************************************************************************)
\* the evaluation state at the start of a chain step
NowAll == [heap |-> heap, log |-> <<>>]

\* number of calls in l made through parameter `slot`
Calls(l, slot) == Cardinality({i \in DOMAIN l : l[i].slot = slot})

\* payloads of the boxes handed to apply in a chain
BoxPayloads == {Num(0), Null}

\* the object the next step is called on
Cur == chain[Len(chain)].ref

ChainInit ==
  /\ \E t \in {"Left", "Right"}, v \in Payloads : heap = Build(t, v).heap
  /\ log = <<>>
  /\ last = NoOp
  /\ chain = <<[ref |-> 1, calls |-> 0]>>

ChainCommit(res, op, name, arg, fn) ==
  /\ Len(chain) <= MaxChain
  /\ Commit(res, op, name, Cur, arg, fn, Undefined)
  /\ chain' = Append(chain, [ref |-> res.ret.n, calls |-> Calls(res.log, "fn")])

\* cur.map(fn), cur["<$>"](fn)
ChainMap ==
  \E fn \in PlainFns, name \in {"map", "<$>"} :
    ChainCommit(map(NowAll, Cur, fn, name), "map", name, Undefined, fn)

\* cur.flatMap(fn), cur[">>="](fn)
ChainFlatMap ==
  \E fn \in EitherFns, name \in {"flatMap", ">>="} :
    ChainCommit(flatMap(NowAll, Cur, fn, name), "flatMap", name, Undefined, fn)

\* cur.apply(left(v)), cur.apply(right(v)), and the same under "<*>"
ChainApply ==
  \E t \in {"Left", "Right"}, v \in BoxPayloads, name \in {"apply", "<*>"} :
    LET box == IF t = "Left" THEN left(NowAll, v) ELSE right(NowAll, v)
    IN /\ CanApply(heap, Cur)
       /\ ChainCommit(apply(box, Cur, box.ret, name), "apply", name, box.ret, Undefined)

ChainNext ==
  \/ ChainMap
  \/ ChainFlatMap
  \/ ChainApply

ChainSpec == ChainInit /\ [][ChainNext]_vars

(***************************************************************************)
(* Properties.                                                             *)
(***************************************************************************)
\* the object a returned reference names
Obj_(v) == heap[v.n]

\* the receiver of the latest expression
Recv == heap[last.recv]

\* what the named client function returns for argument v
Result(fn, v) == CallFn(Empty, fn, v, "fn").ret

\* C1: Left absorption.  map(f), flatMap(f) and apply(b) on a Left(e), for
\* any payload e, argument function f and argument box b, return a Left that
\* holds the same payload e, and no function is called at all.
C1_LeftAbsorption ==
  (/\ last.op \in {"map", "flatMap", "apply"}
   /\ last.name = last.op
   /\ Recv.tag = "Left")
  => /\ last.ret.k = "ref"
     /\ Obj_(last.ret).tag = "Left"
     /\ Obj_(last.ret).value = Recv.value
     /\ log = <<>>

\* C1 witness: flatMap was called on a Left holding null and returned a Left holding null
C1_Witness ==
  /\ last.op = "flatMap" /\ last.name = "flatMap"
  /\ Recv = [tag |-> "Left", value |-> Null]
  /\ Obj_(last.ret) = [tag |-> "Left", value |-> Null]

\* C2: apply looks at the receiver first and the argument second.  A Left
\* receiver gives a Left with the receiver's payload whatever the box is; a
\* Right(f) receiver with a Left(e) box gives a Left holding e, for every e
\* (null and undefined included), and f is not called; a Right(f) receiver
\* with a Right(a) box gives a Right holding f(a), and f is called exactly
\* once, with a.
C2_ApplyOrder ==
  last.op = "apply" =>
    LET box == Obj_(last.arg)
        res == Obj_(last.ret)
    IN /\ Recv.tag = "Left" =>
            res = [tag |-> "Left", value |-> Recv.value]
       /\ (Recv.tag = "Right" /\ box.tag = "Left") =>
            /\ res = [tag |-> "Left", value |-> box.value]
            /\ Calls(log, "fn") = 0
       /\ (Recv.tag = "Right" /\ box.tag = "Right") =>
            /\ res = [tag |-> "Right", value |-> Result(Recv.value, box.value)]
            /\ Calls(log, "fn") = 1
            /\ \E i \in DOMAIN log :
                 log[i] = [fn |-> Recv.value, slot |-> "fn", arg |-> box.value]

\* C2 witness: Right(inc) was applied to a Left holding null and gave a Left holding null
C2_Witness ==
  /\ last.op = "apply"
  /\ Recv = [tag |-> "Right", value |-> Fn("inc")]
  /\ Obj_(last.arg) = [tag |-> "Left", value |-> Null]
  /\ Obj_(last.ret) = [tag |-> "Left", value |-> Null]

\* C3: the monad laws of flatMap, with equality of Eithers meaning same
\* variant and same payload.  Left identity: right(x).flatMap(f) equals f(x)
\* and holds f's payload, not an Either around it.  Right identity:
\* m.flatMap(right) equals m.  Associativity: m.flatMap(f).flatMap(g) equals
\* m.flatMap(x => f(x).flatMap(g)).  m is of either variant.
C3_MonadLaws ==
  /\ last.op = "leftIdentity" =>
       /\ Obj_(last.ret) = Obj_(last.ret2)
       /\ Obj_(last.ret).value.k # "ref"
  /\ (last.op = "flatMap" /\ last.fn = Fn("right")) =>
       Obj_(last.ret) = Recv
  /\ last.op = "assoc" =>
       Obj_(last.ret) = Obj_(last.ret2)

\* C3 witness: associativity was evaluated on a Right(0) with f = incR and
\* g = nonZero, and both sides are Right(1)
C3_Witness ==
  /\ last.op = "assoc"
  /\ Recv = [tag |-> "Right", value |-> Num(0)]
  /\ last.fn = Fn("incR") /\ last.fn2 = Fn("nonZero")
  /\ Obj_(last.ret) = [tag |-> "Right", value |-> Num(1)]
  /\ Obj_(last.ret2) = [tag |-> "Right", value |-> Num(1)]

\* C4: map on Right(v) returns Right(f(v)); for an Either of either variant
\* map(identity) equals the receiver, and map(f).map(g) equals
\* map(x => g(f(x))).  Equality is same variant and same payload.
C4_FunctorLaws ==
  /\ (last.op = "map" /\ Recv.tag = "Right") =>
       Obj_(last.ret) = [tag |-> "Right", value |-> Result(last.fn, Recv.value)]
  /\ (last.op = "map" /\ last.fn = Fn("id")) =>
       Obj_(last.ret) = Recv
  /\ last.op = "mapCompose" =>
       Obj_(last.ret) = Obj_(last.ret2)

\* C4 witness: the composition law was evaluated on a Right(0) with f = inc
\* and g = nil, and both sides are Right(null)
C4_Witness ==
  /\ last.op = "mapCompose"
  /\ Recv = [tag |-> "Right", value |-> Num(0)]
  /\ last.fn = Fn("inc") /\ last.fn2 = Fn("nil")
  /\ Obj_(last.ret) = [tag |-> "Right", value |-> Null]
  /\ Obj_(last.ret2) = [tag |-> "Right", value |-> Null]

\* C5: match(onLeft, onRight) makes exactly one call: to onLeft with the
\* payload when the receiver is a Left, to onRight with the payload when it
\* is a Right; it returns what that call returned.
C5_MatchDispatch ==
  last.op = "match" =>
    IF Recv.tag = "Left"
    THEN /\ log = <<[fn |-> last.fn, slot |-> "onLeft", arg |-> Recv.value]>>
         /\ last.ret = Result(last.fn, Recv.value)
    ELSE /\ log = <<[fn |-> last.fn2, slot |-> "onRight", arg |-> Recv.value]>>
         /\ last.ret = Result(last.fn2, Recv.value)

\* C5 witness: match(nil, inc) on a Left(0) returned null
C5_Witness ==
  /\ last.op = "match"
  /\ Recv = [tag |-> "Left", value |-> Num(0)]
  /\ last.fn = Fn("nil") /\ last.fn2 = Fn("inc")
  /\ last.ret = Null

\* C6: e.orElse(d) is e itself (the same object) when e is a Right and is d
\* when e is a Left; e.getOrElse(x) is e's payload when e is a Right and is x
\* when e is a Left.
C6_DefaultExtraction ==
  /\ last.op = "orElse" =>
       last.ret = (IF Recv.tag = "Right" THEN Ref(last.recv) ELSE last.arg)
  /\ last.op = "getOrElse" =>
       last.ret = (IF Recv.tag = "Right" THEN Recv.value ELSE last.arg)

\* the object isLeft / isRight was given
Given == Obj_(last.arg)

\* C7: for a constructed Either e, isLeft(e) is true iff e is a Left whose
\* payload is neither null nor undefined, and isRight(e) is true iff e is a
\* Right whose payload is neither null nor undefined; so the two are never
\* both true, and both are false exactly when the payload is null or
\* undefined.
C7_Classification ==
  /\ (last.op = "isLeft" /\ last.arg.k = "ref") =>
       last.ret = Bool(Given.tag = "Left" /\ Given.value \notin {Null, Undefined})
  /\ (last.op = "isRight" /\ last.arg.k = "ref") =>
       last.ret = Bool(Given.tag = "Right" /\ Given.value \notin {Null, Undefined})
  /\ \A r \in Held :
       LET l == isLeft(Now, Ref(r)).ret
           rr == isRight(Now, Ref(r)).ret
       IN /\ ~(l = Bool(TRUE) /\ rr = Bool(TRUE))
          /\ (l = Bool(FALSE) /\ rr = Bool(FALSE)) <=> heap[r].value \in {Null, Undefined}

\* C7 witness: isLeft was asked of a Left holding undefined and answered false
C7_Witness ==
  /\ last.op = "isLeft" /\ last.arg.k = "ref"
  /\ Given = [tag |-> "Left", value |-> Undefined]
  /\ last.ret = Bool(FALSE)

\* C8: isEither(value) returns the boolean true iff value is an object whose
\* isEither tag is true, and the boolean false for every other value.
C8_IsEitherBoolean ==
  last.op = "isEither" => last.ret = Bool(last.arg.k = "ref")

\* C9: immutability.  A constructor stores the payload it is given under its
\* own variant; no method call or predicate changes the variant or the
\* payload of an object the client holds, whether the object is the receiver
\* or an argument; getValue() returns the stored payload.
C9_Immutable ==
  /\ [](last.op \in {"left", "right"} =>
          Obj_(last.ret) = [tag |-> IF last.op = "left" THEN "Left" ELSE "Right",
                            value |-> last.arg])
  /\ [](last.op = "getValue" => last.ret = Recv.value)
  /\ [][last'.op \notin {"left", "right"} =>
          \A r \in Held : heap'[r] = heap[r]]_vars

\* C9 witness: map(inc) on the held Right(0) returned a Right(1) and the
\* receiver is still Right(0)
C9_Witness ==
  /\ last.op = "map" /\ last.fn = Fn("inc")
  /\ Recv = [tag |-> "Right", value |-> Num(0)]
  /\ Obj_(last.ret) = [tag |-> "Right", value |-> Num(1)]

\* C10: short-circuit over a chain.  Once an element of the chain is a
\* Left(e), every later element is a Left with the same payload e, and the
\* later steps call no function they were given.
C10_ShortCircuit ==
  \A i \in DOMAIN chain : \A j \in DOMAIN chain :
    (i < j /\ heap[chain[i].ref].tag = "Left") =>
      /\ heap[chain[j].ref] = heap[chain[i].ref]
      /\ chain[j].calls = 0

\* C10 witness: a chain that started from a Right turned into a Left at its
\* first step, through flatMap, and then took two more steps, one of them
\* under an alias
C10_Witness ==
  /\ Len(chain) = 4
  /\ heap[chain[1].ref].tag = "Right"
  /\ heap[chain[2].ref].tag = "Left"
  /\ heap[chain[4].ref].tag = "Left"
  /\ last.name \in {"<$>", ">>=", "<*>"}

====
